---------------------------- MODULE Spec2Model ----------------------------
(***************************************************************************)
(* A model of the UI state agent: the guardrail detectors and the planner  *)
(* boundary of agent.py and the step loop of run_task_workflow, which      *)
(* drives a BrowserController (browser.py) under the step budget of        *)
(* config.py.                                                              *)
(*                                                                         *)
(* Python strings that the code searches (URLs, page text, the task        *)
(* description) are sequences of one-character strings, so that `in` and   *)
(* lower() are computed and not assumed.                                   *)
(***************************************************************************)
EXTENDS Integers, Sequences, FiniteSets, TLC

VARIABLES
    pc,                \* where run_task_workflow is
    task_description,  \* argument of run_task_workflow
    step_idx,          \* the loop variable of `for step_idx in range(...)`
    login_handled,     \* agent.py:271
    dom,               \* the snapshot taken by the current iteration
    history,           \* agent.py:262
    metadata,          \* agent.py:263, a dict: a key is present once assigned
    written,           \* how many times metadata.json has been dumped
    raised,            \* the call whose exception left run_task_workflow
    \* Observations of the run; no action reads them, except `events` which
    \* bounds the environment.
    iterations,        \* loop iterations that ran to their end
    planner_calls,     \* calls of decide_next_action
    pauses,            \* times the run blocked in input()
    assigned,          \* how often each terminal key of metadata was assigned
    last,              \* what the latest iteration met and did
    events,            \* departures of the environment from the uneventful course
    \* A call of one function taken alone (BrowserController.click and fill,
    \* the detectors): its arguments, where it is, what it tried and its result.
    frame

vars == <<pc, task_description, step_idx, login_handled, dom, history,
          metadata, written, raised, iterations, planner_calls, pauses,
          assigned, last, events, frame>>

----------------------------------------------------------------------------
(* Strings.                                                                *)

UpperCase ==
    <<"A", "B", "C", "D", "E", "F", "G", "H", "I", "J", "K", "L", "M", "N", "O", "P", "Q", "R", "S", "T", "U", "V", "W", "X", "Y", "Z">>

LowerCase ==
    <<"a", "b", "c", "d", "e", "f", "g", "h", "i", "j", "k", "l", "m", "n", "o", "p", "q", "r", "s", "t", "u", "v", "w", "x", "y", "z">>

\* str.lower() on one character
LowerChar(c) ==
    IF \E i \in 1..Len(UpperCase) : UpperCase[i] = c
    THEN LowerCase[CHOOSE i \in 1..Len(UpperCase) : UpperCase[i] = c]
    ELSE c

\* str.lower()
Lower(s) ==
    [i \in 1..Len(s) |-> LowerChar(s[i])]

\* `needle in hay` on two Python strings
Contains(hay, needle) ==
    \E k \in 0..(Len(hay) - Len(needle)) :
        \A i \in 1..Len(needle) : hay[k + i] = needle[i]

----------------------------------------------------------------------------
(* The literals of the guardrail detectors.                                *)

GoogleAccountsHost ==
    <<"a", "c", "c", "o", "u", "n", "t", "s", ".", "g", "o", "o", "g", "l", "e", ".", "c", "o", "m">>

GithubLoginPath ==
    <<"g", "i", "t", "h", "u", "b", ".", "c", "o", "m", "/", "l", "o", "g", "i", "n">>

GithubHost ==
    <<"g", "i", "t", "h", "u", "b", ".", "c", "o", "m">>

NewMarker ==
    <<"/", "n", "e", "w">>

IssuesMarker ==
    <<"/", "i", "s", "s", "u", "e", "s", "/">>

IssuesNewMarker ==
    <<"/", "i", "s", "s", "u", "e", "s", "/", "n", "e", "w">>

CreateRepoBanner ==
    <<"c", "r", "e", "a", "t", "e", " ", "a", " ", "n", "e", "w", " ", "r", "e", "p", "o", "s", "i", "t", "o", "r", "y">>

NewIssueText ==
    <<"n", "e", "w", " ", "i", "s", "s", "u", "e">>

SubmitNewIssueText ==
    <<"s", "u", "b", "m", "i", "t", " ", "n", "e", "w", " ", "i", "s", "s", "u", "e">>

KwCreate ==
    <<"c", "r", "e", "a", "t", "e">>

KwRepo ==
    <<"r", "e", "p", "o">>

KwRepository ==
    <<"r", "e", "p", "o", "s", "i", "t", "o", "r", "y">>

KwProject ==
    <<"p", "r", "o", "j", "e", "c", "t">>

KwIssue ==
    <<"i", "s", "s", "u", "e">>

KwBug ==
    <<"b", "u", "g">>

login_markers ==
    << <<"s", "i", "g", "n", " ", "i", "n">>,
       <<"s", "i", "g", "n", " ", "u", "p">>,
       <<"l", "o", "g", " ", "i", "n">>,
       <<"l", "o", "g", " ", "i", "n", "t", "o">>,
       <<"c", "o", "n", "t", "i", "n", "u", "e", " ", "w", "i", "t", "h", " ", "g", "o", "o", "g", "l", "e">>,
       <<"c", "o", "n", "t", "i", "n", "u", "e", " ", "w", "i", "t", "h", " ", "m", "i", "c", "r", "o", "s", "o", "f", "t">>,
       <<"p", "a", "s", "s", "w", "o", "r", "d">>,
       <<"2", "-", "s", "t", "e", "p", " ", "v", "e", "r", "i", "f", "i", "c", "a", "t", "i", "o", "n">> >>

----------------------------------------------------------------------------
(* Page snapshots (browser.py get_dom_snapshot) and task descriptions the  *)
(* run is checked on.  The html of a snapshot is never read by agent.py.   *)

\* a login URL
PageLoginUrl ==
    [url |-> <<"h", "t", "t", "p", "s", ":", "/", "/", "g", "i", "t", "h", "u", "b", ".", "c", "o", "m", "/", "l", "o", "g", "i", "n">>,
     visible_text |-> <<"W", "e", "l", "c", "o", "m", "e">>]

\* the repository creation form
PageNewRepo ==
    [url |-> <<"h", "t", "t", "p", "s", ":", "/", "/", "g", "i", "t", "h", "u", "b", ".", "c", "o", "m", "/", "n", "e", "w">>,
     visible_text |-> <<"C", "r", "e", "a", "t", "e", " ", "a", " ", "n", "e", "w", " ", "r", "e", "p", "o", "s", "i", "t", "o", "r", "y">>]

\* a repository page
PageRepo ==
    [url |-> <<"h", "t", "t", "p", "s", ":", "/", "/", "g", "i", "t", "h", "u", "b", ".", "c", "o", "m", "/", "u", "/", "d", "e", "m", "o">>,
     visible_text |-> <<"d", "e", "m", "o">>]

\* an issue page
PageIssue ==
    [url |-> <<"h", "t", "t", "p", "s", ":", "/", "/", "g", "i", "t", "h", "u", "b", ".", "c", "o", "m", "/", "u", "/", "d", "e", "m", "o", "/", "i", "s", "s", "u", "e", "s", "/", "1">>,
     visible_text |-> <<"c", "r", "a", "s", "h">>]

Pages ==
    {PageLoginUrl, PageNewRepo, PageRepo, PageIssue}

\* the value of `dom` before the first snapshot
NoDom ==
    [url |-> <<>>, visible_text |-> <<>>]

TaskCreateRepo ==
    <<"C", "r", "e", "a", "t", "e", " ", "a", " ", "r", "e", "p", "o", "s", "i", "t", "o", "r", "y", " ", "n", "a", "m", "e", "d", " ", "d", "e", "m", "o">>

TaskReportBug ==
    <<"R", "e", "p", "o", "r", "t", " ", "a", " ", "b", "u", "g">>

Tasks ==
    {TaskCreateRepo, TaskReportBug}

----------------------------------------------------------------------------
(* Guardrail detectors (agent.py).                                         *)

\* sum(1 for m in login_markers if m in text)
MarkerHits(text) ==
    Cardinality({i \in 1..Len(login_markers) : Contains(text, login_markers[i])})

\* agent.py:178 with one marker taken for enough
looks_like_login_or_oauth_one_hit(d) ==
    LET url == Lower(d.url)
        text == Lower(d.visible_text)
    IN  IF Contains(url, GoogleAccountsHost) THEN TRUE
        ELSE IF Contains(url, GithubLoginPath) THEN TRUE
        ELSE MarkerHits(text) >= 1

looks_like_login_or_oauth(d) ==
    LET url == Lower(d.url)
        text == Lower(d.visible_text)
    IN  IF Contains(url, GoogleAccountsHost) THEN TRUE
        ELSE IF Contains(url, GithubLoginPath) THEN TRUE
        ELSE MarkerHits(text) >= 2

\* agent.py:181-202 without the check of the creation-form banner
looks_like_github_repo_page_ignores_banner(d, task_text) ==
    LET url == Lower(d.url)
        task == Lower(task_text)
    IN  IF ~Contains(url, GithubHost) THEN FALSE
        ELSE IF Contains(url, NewMarker) THEN FALSE
        ELSE IF /\ Contains(task, KwCreate)
                /\ \/ Contains(task, KwRepo)
                   \/ Contains(task, KwRepository)
                   \/ Contains(task, KwProject)
             THEN TRUE
        ELSE FALSE

looks_like_github_repo_page(d, task_text) ==
    LET url == Lower(d.url)
        text == Lower(d.visible_text)
        task == Lower(task_text)
    IN  IF ~Contains(url, GithubHost) THEN FALSE
        ELSE IF Contains(url, NewMarker) THEN FALSE
        ELSE IF Contains(text, CreateRepoBanner) THEN FALSE
        ELSE IF /\ Contains(task, KwCreate)
                /\ \/ Contains(task, KwRepo)
                   \/ Contains(task, KwRepository)
                   \/ Contains(task, KwProject)
             THEN TRUE
        ELSE FALSE

looks_like_github_issue_page(d, task_text) ==
    LET url == Lower(d.url)
        text == Lower(d.visible_text)
        task == Lower(task_text)
    IN  IF ~Contains(url, GithubHost) THEN FALSE
        ELSE IF ~Contains(url, IssuesMarker) THEN FALSE
        ELSE IF Contains(url, IssuesNewMarker) THEN FALSE
        ELSE IF Contains(text, NewIssueText) /\ Contains(text, SubmitNewIssueText)
             THEN FALSE
        ELSE IF Contains(task, KwIssue) \/ Contains(task, KwBug) THEN TRUE
        ELSE FALSE

----------------------------------------------------------------------------
(* The planner boundary (agent.py LLMAgent.decide_next_action).            *)
(*                                                                         *)
(* The reply of the model is a sequence of tokens: a code fence, the word  *)
(* json, other prose, or one JSON value.  A JSON object is a dict, modelled *)
(* as a function from its keys; a Python string that the code only         *)
(* compares or tests for emptiness is a TLA+ string.                       *)

\* Python None where a string is expected (JSON null)
NONE ==
    "<None>"

Fence ==
    [tok |-> "fence"]

JsonTag ==
    [tok |-> "json"]

Prose ==
    [tok |-> "prose"]

JObject(o) ==
    [tok |-> "value", json |-> "object", value |-> o]

JArray ==
    [tok |-> "value", json |-> "array", value |-> [items |-> 0]]

JNull ==
    [tok |-> "value", json |-> "null", value |-> [items |-> 0]]

\* The JSON objects a planner may answer with.
ObjWait ==
    [action_type |-> "wait"]

ObjWaitNoShots ==
    [action_type |-> "wait", screenshot_before |-> FALSE, screenshot_after |-> FALSE]

ObjClick ==
    [action_type |-> "click", selector |-> "Create repository"]

ObjClickEmpty ==
    [action_type |-> "click", selector |-> ""]

ObjType ==
    [action_type |-> "type", text |-> "demo", wait_ms |-> 500]

ObjTypeNull ==
    [action_type |-> "type", selector |-> "Repository name", text |-> NONE]

ObjDone ==
    [action_type |-> "done", reason |-> "task complete"]

ObjNoType ==
    [reason |-> "nothing left to do"]

ObjNullType ==
    [action_type |-> NONE, selector |-> "Create repository"]

ObjScroll ==
    [action_type |-> "scroll", selector |-> "Create repository"]

\* What response.choices[0].message.content can be, after the first strip().
Replies ==
    { <<JObject(ObjWait)>>, <<JObject(ObjWaitNoShots)>>,
      <<JObject(ObjClick)>>, <<JObject(ObjClickEmpty)>>,
      <<JObject(ObjType)>>, <<JObject(ObjTypeNull)>>,
      <<JObject(ObjDone)>>, <<JObject(ObjNoType)>>,
      <<JObject(ObjNullType)>>, <<JObject(ObjScroll)>>,
      <<Fence, JsonTag, JObject(ObjClick), Fence>>,
      <<Fence, JObject(ObjType), Fence>>,
      <<JsonTag, JObject(ObjClick)>>,
      <<Prose, JObject(ObjClick)>>,
      <<Prose>>,
      <<>>,
      <<Fence, JsonTag, JArray, Fence>>,
      <<JArray>>,
      <<JNull>> }

RECURSIVE lstrip_fences(_)
\* the leading part of raw.strip("`")
lstrip_fences(raw) ==
    IF raw # <<>> /\ Head(raw) = Fence THEN lstrip_fences(Tail(raw)) ELSE raw

RECURSIVE rstrip_fences(_)
\* the trailing part of raw.strip("`")
rstrip_fences(raw) ==
    IF raw # <<>> /\ raw[Len(raw)] = Fence
    THEN rstrip_fences(SubSeq(raw, 1, Len(raw) - 1))
    ELSE raw

\* agent.py:126-129, the handling of ```json ... ``` wrappers
unwrap(raw) ==
    IF raw # <<>> /\ Head(raw) = Fence
    THEN LET inner == rstrip_fences(lstrip_fences(raw))
         IN  IF inner # <<>> /\ Head(inner) = JsonTag THEN Tail(inner) ELSE inner
    ELSE raw

\* json.loads(raw) raises unless raw is exactly one JSON value
json_loads_raises(raw) ==
    ~(Len(raw) = 1 /\ raw[1].tok = "value")

\* agent.py:131-135: the value bound to `data`
parsed_data(raw) ==
    IF json_loads_raises(unwrap(raw))
    THEN JObject([action_type |-> "done"])
    ELSE unwrap(raw)[1]

\* dict.get(key, default)
Get(o, key, default) ==
    IF key \in DOMAIN o THEN o[key] ELSE default

\* agent.py:137-145
AgentAction(o) ==
    [action_type       |-> Get(o, "action_type", "done"),
     selector          |-> Get(o, "selector", NONE),
     text              |-> Get(o, "text", NONE),
     wait_ms           |-> Get(o, "wait_ms", 0),   \* 0 stands for None
     screenshot_before |-> Get(o, "screenshot_before", TRUE),
     screenshot_after  |-> Get(o, "screenshot_after", TRUE),
     reason            |-> Get(o, "reason", "")]

\* data.get raises AttributeError when data is no dict
decide_next_action_raises(raw) ==
    parsed_data(raw).json # "object"

\* the AgentAction returned for the reply `raw`
decide_next_action(raw) ==
    AgentAction(parsed_data(raw).value)

\* how the reply fared in json.loads
ReplyClass(raw) ==
    IF json_loads_raises(unwrap(raw)) THEN "unparsable"
    ELSE IF unwrap(raw)[1].json # "object" THEN "not_object"
    ELSE "object"

\* truth value of an Optional[str]
Truthy(s) ==
    s # NONE /\ s # ""

----------------------------------------------------------------------------
(* The control surface as run_task_workflow sees it (browser.py).  What a  *)
(* call meets on the live page is the environment's choice.                *)

\* goto: the navigation, then the retry that waits for the network
GotoEnvs ==
    { [first |-> TRUE,  second |-> TRUE],
      [first |-> FALSE, second |-> TRUE],
      [first |-> FALSE, second |-> FALSE] }

\* browser.py:44-49
goto_raises(g) ==
    ~g.first /\ ~g.second

\* screenshot: the capture, whether the context still has pages, the retry
ShotEnvs ==
    { [first |-> TRUE,  pages |-> TRUE,  retry |-> TRUE],
      [first |-> FALSE, pages |-> TRUE,  retry |-> TRUE],
      [first |-> FALSE, pages |-> FALSE, retry |-> TRUE],
      [first |-> FALSE, pages |-> TRUE,  retry |-> FALSE] }

\* browser.py:59-68: the exception of the retry is not caught
screenshot_raises(s) ==
    ~s.first /\ s.pages /\ ~s.retry

\* browser.py:59-68: an image was written
screenshot_wrote(s) ==
    s.first \/ (s.pages /\ s.retry)

\* run_dir / f"step_{step_idx:02d}_{name}.png"
Path(idx, name) ==
    <<idx, name>>

\* None where a path is expected
NoPath ==
    <<>>

----------------------------------------------------------------------------
(* Bounds of the model.                                                    *)

\* config.py: max agent steps per task
MAX_STEPS == 15

\* How many times in one run the environment may depart from the uneventful
\* course: the start page still showing, the planner answering a plain wait,
\* every browser call succeeding at its first attempt.
MaxEvents == 2

QuietPage ==
    PageNewRepo

QuietReply ==
    <<JObject(ObjWait)>>

QuietGoto ==
    [first |-> TRUE, second |-> TRUE]

QuietShot ==
    [first |-> TRUE, pages |-> TRUE, retry |-> TRUE]

\* 1 for a departure, 0 for none
Dep(quiet) ==
    IF quiet THEN 0 ELSE 1

\* the environment can still afford `cost` departures
Affordable(cost) ==
    events + cost <= MaxEvents

----------------------------------------------------------------------------
(* run_task_workflow (agent.py:233-449).                                   *)

\* range(1, MAX_STEPS + 2): an off-by-one in the budget
StepRange_one_more ==
    1..(MAX_STEPS + 1)

\* range(1, MAX_STEPS + 1)
StepRange ==
    1..MAX_STEPS

\* metadata[key] = value
Assign(m, key, value) ==
    (key :> value) @@ m

\* the record is built and never appended
AppendStep_forgotten(m, record) ==
    m

\* metadata["steps"].append(record)
AppendStep(m, record) ==
    [m EXCEPT !.steps = Append(@, record)]

\* agent.py:312-313 and the same two assignments of every other stop
Stop(m, reason, url) ==
    Assign(Assign(m, "stopped_reason", reason), "final_url", url)

\* the observation of those two assignments
StopCounted(c) ==
    [stopped_reason |-> c.stopped_reason + 1, final_url |-> c.final_url + 1]

\* no function is examined on its own while run_task_workflow runs
NoCall ==
    [method |-> "none"]

NoLast ==
    [reply |-> "none", executed |-> "none", missed |-> {},
     failed |-> "none", caught |-> {}]

\* the captures among `taken` that wrote no image
Missed(taken) ==
    {n \in DOMAIN taken : ~screenshot_wrote(taken[n])}

\* The set S with its elements listed: TLC keeps the value of a constant
\* definition, and filters a set {x \in S : P(x)} anew at each use unless its
\* elements are listed.
Listed(S) ==
    {x : x \in S}

\* The verdicts of the detectors on the snapshots and tasks of the model.
LoginPages ==
    Listed({d \in Pages : looks_like_login_or_oauth(d)})

RepoPages ==
    Listed({p \in Pages \X Tasks : looks_like_github_repo_page(p[1], p[2])})

IssuePages ==
    Listed({p \in Pages \X Tasks : looks_like_github_issue_page(p[1], p[2])})

\* agent.py:277 with the login hook removed
needs_manual_login_never(d) ==
    FALSE

\* agent.py:277 without the `and not login_handled`
needs_manual_login_every_time(d) ==
    d \in LoginPages

\* agent.py:277
needs_manual_login(d) ==
    d \in LoginPages /\ ~login_handled

\* agent.py:308 with the stuck branch removed
stuck_on_login_ignored(d) ==
    FALSE

\* agent.py:308
stuck_on_login(d) ==
    d \in LoginPages /\ login_handled

\* agent.py:317, reached when neither login branch was taken
repo_detected(d) ==
    /\ ~needs_manual_login(d)
    /\ ~stuck_on_login(d)
    /\ <<d, task_description>> \in RepoPages

\* agent.py:338, reached when the repository template did not match
issue_detected(d) ==
    /\ ~needs_manual_login(d)
    /\ ~stuck_on_login(d)
    /\ <<d, task_description>> \notin RepoPages
    /\ <<d, task_description>> \in IssuePages

\* agent.py:358 with the planner asked before the success templates
planner_consulted_first(d) ==
    /\ ~needs_manual_login(d)
    /\ ~stuck_on_login(d)

\* agent.py:358, reached when no guardrail took the iteration
planner_consulted(d) ==
    /\ ~needs_manual_login(d)
    /\ ~stuck_on_login(d)
    /\ <<d, task_description>> \notin RepoPages
    /\ <<d, task_description>> \notin IssuePages

\* agent.py:293-304
ManualLoginRecord(idx, d) ==
    [step |-> idx,
     url |-> d.url,
     action |-> [action_type |-> "manual_login",
                 reason |-> "User logged in manually."],
     before |-> NoPath,
     after |-> Path(idx, "after_login")]

\* agent.py:323-334 and 344-355
AutoDoneRecord(idx, d, name, why) ==
    [step |-> idx,
     url |-> d.url,
     action |-> [action_type |-> "auto_done", reason |-> why],
     before |-> NoPath,
     after |-> Path(idx, name)]

\* a record numbered by the planner actions made so far, not by the iteration
StepRecord_numbered_by_history(idx, d, action, before_path, after_path) ==
    [step |-> Len(history) + 1,
     url |-> d.url,
     action |-> action,
     before |-> before_path,
     after |-> after_path]

\* agent.py:427-435 and 384-392
StepRecord(idx, d, action, before_path, after_path) ==
    [step |-> idx,
     url |-> d.url,
     action |-> action,
     before |-> before_path,
     after |-> after_path]

\* agent.py:404-413
ErrorRecord(idx, d, action, before_path, error_path, e) ==
    [step |-> idx,
     url |-> d.url,
     action |-> action,
     before |-> before_path,
     after |-> error_path,
     error |-> e]

\* agent.py:437-442
HistoryEntry(d, action) ==
    [url |-> d.url, action |-> action]

Init ==
    /\ pc = "start"
    /\ task_description \in Tasks
    /\ step_idx = 1
    /\ login_handled = FALSE
    /\ dom = NoDom
    /\ history = <<>>
    /\ metadata = [task_description |-> task_description, steps |-> <<>>]
    /\ written = 0
    /\ raised = "none"
    /\ iterations = 0
    /\ planner_calls = 0
    /\ pauses = 0
    /\ assigned = [stopped_reason |-> 0, final_url |-> 0]
    /\ last = NoLast
    /\ events = 0
    /\ frame = NoCall

\* an exception leaves run_task_workflow: nothing after the raising call runs
Escape(call) ==
    /\ pc' = "raised"
    /\ raised' = call

\* agent.py:252-271: browser.goto(start_url) and the locals of the run
Start ==
    /\ pc = "start"
    /\ \E g \in GotoEnvs :
        /\ Affordable(Dep(g = QuietGoto))
        /\ events' = events + Dep(g = QuietGoto)
        /\ IF goto_raises(g)
           THEN Escape("goto")
           ELSE pc' = "loop" /\ raised' = raised
    /\ UNCHANGED <<frame, task_description, step_idx, login_handled, dom, history,
                   metadata, written, iterations, planner_calls, pauses,
                   assigned, last>>

\* the head of an iteration is reached again after a stop: no break
AtLoopHead_after_stop ==
    pc \in {"loop", "save"} /\ step_idx \in StepRange

\* the loop is at the head of an iteration
AtLoopHead ==
    pc = "loop" /\ step_idx \in StepRange

\* agent.py:274: get_dom_snapshot raises (inner_text or content fails)
SnapshotRaises ==
    /\ AtLoopHead
    /\ Affordable(1)
    /\ events' = events + 1
    /\ Escape("get_dom_snapshot")
    /\ UNCHANGED <<frame, task_description, step_idx, login_handled, dom, history,
                   metadata, written, iterations, planner_calls, pauses,
                   assigned, last>>

\* agent.py:274-287: a login page, not yet handled: the run blocks in input()
LoginPause ==
    /\ AtLoopHead
    /\ \E d \in Pages :
        /\ Affordable(Dep(d = QuietPage))
        /\ needs_manual_login(d)
        /\ events' = events + Dep(d = QuietPage)
        /\ dom' = d
    /\ pc' = "input"
    /\ pauses' = pauses + 1
    /\ last' = NoLast
    /\ UNCHANGED <<frame, task_description, step_idx, login_handled, history,
                   metadata, written, raised, iterations, planner_calls,
                   assigned>>

\* the login hook goes back to the head of the loop at the same step: the
\* pause takes nothing from the budget
Acknowledge_keeps_step ==
    /\ pc = "input"
    /\ login_handled' = TRUE
    /\ \E g \in GotoEnvs, s \in ShotEnvs :
        LET cost == Dep(g = QuietGoto) + Dep(s = QuietShot)
        IN  /\ Affordable(cost)
            /\ events' = events + cost
            /\ IF goto_raises(g)
               THEN /\ Escape("goto")
                    /\ UNCHANGED <<step_idx, metadata, iterations, last>>
               ELSE IF screenshot_raises(s)
               THEN /\ Escape("screenshot:after_login")
                    /\ UNCHANGED <<step_idx, metadata, iterations, last>>
               ELSE /\ metadata' = AppendStep(metadata,
                                              ManualLoginRecord(step_idx, dom))
                    /\ last' = [NoLast EXCEPT !.missed = Missed([after |-> s])]
                    /\ step_idx' = step_idx
                    /\ iterations' = iterations + 1
                    /\ pc' = "loop"
                    /\ raised' = raised
    /\ UNCHANGED <<frame, task_description, dom, history, written, planner_calls,
                   pauses, assigned>>

\* agent.py:287-305: the operator presses ENTER; the rest of the login hook
Acknowledge ==
    /\ pc = "input"
    /\ login_handled' = TRUE
    /\ \E g \in GotoEnvs, s \in ShotEnvs :
        LET cost == Dep(g = QuietGoto) + Dep(s = QuietShot)
        IN  /\ Affordable(cost)
            /\ events' = events + cost
            /\ IF goto_raises(g)
               THEN /\ Escape("goto")
                    /\ UNCHANGED <<step_idx, metadata, iterations, last>>
               ELSE IF screenshot_raises(s)
               THEN /\ Escape("screenshot:after_login")
                    /\ UNCHANGED <<step_idx, metadata, iterations, last>>
               ELSE /\ metadata' = AppendStep(metadata,
                                              ManualLoginRecord(step_idx, dom))
                    /\ last' = [NoLast EXCEPT !.missed = Missed([after |-> s])]
                    /\ step_idx' = step_idx + 1
                    /\ iterations' = iterations + 1
                    /\ pc' = "loop"
                    /\ raised' = raised
    /\ UNCHANGED <<frame, task_description, dom, history, written, planner_calls,
                   pauses, assigned>>

\* agent.py:308-314: still a login page after the manual login
StuckOnLogin ==
    /\ AtLoopHead
    /\ \E d \in Pages, s \in ShotEnvs :
        LET cost == Dep(d = QuietPage) + Dep(s = QuietShot)
        IN  /\ Affordable(cost)
            /\ ~needs_manual_login(d)
            /\ stuck_on_login(d)
            /\ events' = events + cost
            /\ dom' = d
            /\ last' = NoLast
            /\ IF screenshot_raises(s)
               THEN /\ Escape("screenshot:login_stuck")
                    /\ UNCHANGED <<metadata, assigned, iterations>>
               ELSE /\ metadata' = Stop(metadata, "stuck_on_login", d.url)
                    /\ assigned' = StopCounted(assigned)
                    /\ iterations' = iterations + 1
                    /\ pc' = "save"
                    /\ raised' = raised
    /\ UNCHANGED <<frame, task_description, step_idx, login_handled, history,
                   written, planner_calls, pauses>>

\* agent.py:316-356: a success template matches; `name` and `reason` are the
\* branch's screenshot name and stopped_reason
SuccessStop(d, s, name, reason, why) ==
    LET cost == Dep(d = QuietPage) + Dep(s = QuietShot)
    IN  /\ Affordable(cost)
        /\ events' = events + cost
        /\ dom' = d
        /\ IF screenshot_raises(s)
           THEN /\ Escape("screenshot:" \o name)
                /\ last' = NoLast
                /\ UNCHANGED <<metadata, assigned, iterations>>
           ELSE /\ metadata' = AppendStep(Stop(metadata, reason, d.url),
                                          AutoDoneRecord(step_idx, d, name, why))
                /\ assigned' = StopCounted(assigned)
                /\ last' = [NoLast EXCEPT !.missed = Missed([after |-> s])]
                /\ iterations' = iterations + 1
                /\ pc' = "save"
                /\ raised' = raised
        /\ UNCHANGED <<frame, task_description, step_idx, login_handled, history,
                       written, planner_calls, pauses>>

\* agent.py:316-335
RepoDetected ==
    /\ AtLoopHead
    /\ \E d \in Pages, s \in ShotEnvs :
        /\ repo_detected(d)
        /\ SuccessStop(d, s, "final_repo", "github_repo_detected",
                       "Detected GitHub repo page (create workflow completed)")

\* agent.py:337-356
IssueDetected ==
    /\ AtLoopHead
    /\ \E d \in Pages, s \in ShotEnvs :
        /\ issue_detected(d)
        /\ SuccessStop(d, s, "final_issue", "github_issue_detected",
                       "Detected GitHub issue page (issue workflow completed)")

----------------------------------------------------------------------------
(* The planner-driven part of an iteration (agent.py:358-442).             *)

\* What one such iteration meets: whether the chat completion returns, the
\* reply, and the fate of each browser call the iteration can make.
TurnEnvs ==
    [api : BOOLEAN, reply : Replies, before : ShotEnvs, act : BOOLEAN,
     final : ShotEnvs, error : ShotEnvs, settle : BOOLEAN, after : ShotEnvs]

TurnCost(e) ==
    Dep(e.api) + Dep(e.reply = QuietReply) + Dep(e.before = QuietShot)
    + Dep(e.act) + Dep(e.final = QuietShot) + Dep(e.error = QuietShot)
    + Dep(e.settle) + Dep(e.after = QuietShot)

\* the courses of an iteration, by the number of their departures
TurnsCosting ==
    {<<c, Listed({e \in TurnEnvs : TurnCost(e) = c})>> : c \in 0..MaxEvents}

\* the courses the environment can still afford after snapshot `d`
Turns(d) ==
    UNION {p[2] : p \in {q \in TurnsCosting :
                            q[1] <= MaxEvents - events - Dep(d = QuietPage)}}

\* agent.py:373-379: the call the dispatch selects
Dispatch(a) ==
    IF a.action_type = "click" /\ Truthy(a.selector) THEN "click"
    ELSE IF a.action_type = "type" /\ Truthy(a.text) THEN "fill"
    ELSE IF a.action_type = "wait" THEN "wait"
    ELSE IF a.action_type = "done" THEN "done"
    ELSE "none"

\* agent.py:364-369
BeforePath(idx, a) ==
    IF a.screenshot_before THEN Path(idx, "before") ELSE NoPath

\* agent.py:419-424
AfterPath(idx, a) ==
    IF a.screenshot_after THEN Path(idx, "after") ELSE NoPath

\* ErrorPath when the failure of the error capture is not caught into None
ErrorPath_kept(idx, e) ==
    Path(idx, "error")

\* agent.py:395-399
ErrorPath(idx, e) ==
    IF screenshot_raises(e.error) THEN NoPath ELSE Path(idx, "error")

\* agent.py:372-394: the call inside the try that raises, "none" if none does
RaisedInTry(a, e) ==
    IF Dispatch(a) \in {"click", "fill", "wait"} /\ ~e.act THEN Dispatch(a)
    ELSE IF Dispatch(a) = "done" /\ screenshot_raises(e.final)
    THEN "screenshot"
    ELSE "none"

\* the page action of the iteration that went through
Executed(a, e) ==
    IF Dispatch(a) \in {"click", "fill", "wait"} /\ e.act THEN Dispatch(a)
    ELSE "none"

\* the captures of the iteration, up to its record
Captures(a, e) ==
    LET before == IF a.screenshot_before THEN [before |-> e.before]
                  ELSE [none |-> QuietShot]
        after  == IF RaisedInTry(a, e) # "none" THEN [after |-> e.error]
                  ELSE IF Dispatch(a) = "done" THEN [after |-> e.final]
                  ELSE IF a.screenshot_after THEN [after |-> e.after]
                  ELSE [none |-> QuietShot]
    IN  before @@ after

\* the call of the iteration whose exception nothing catches, "none" if none
EscapesFrom(raw, e) ==
    LET a == decide_next_action(raw)
    IN  IF ~e.api \/ decide_next_action_raises(raw) THEN "decide_next_action"
        ELSE IF a.screenshot_before /\ screenshot_raises(e.before)
        THEN "screenshot:before"
        ELSE IF RaisedInTry(a, e) # "none" \/ Dispatch(a) = "done" THEN "none"
        ELSE IF ~e.settle THEN "wait:settle"
        ELSE IF a.screenshot_after /\ screenshot_raises(e.after)
        THEN "screenshot:after"
        ELSE "none"

\* what every planner-driven iteration does first
ConsultPlanner(d, e) ==
    /\ AtLoopHead
    /\ planner_consulted(d)
    /\ Affordable(Dep(d = QuietPage) + TurnCost(e))
    /\ events' = events + Dep(d = QuietPage) + TurnCost(e)
    /\ dom' = d
    /\ planner_calls' = planner_calls + 1

\* agent.py:359-367, 417, 422: an exception outside the try block
TurnRaises ==
    \E d \in Pages : \E e \in Turns(d) :
        /\ ConsultPlanner(d, e)
        /\ EscapesFrom(e.reply, e) # "none"
        /\ Escape(EscapesFrom(e.reply, e))
        /\ last' = [reply |-> IF e.api THEN ReplyClass(e.reply) ELSE "none",
                    executed |-> IF EscapesFrom(e.reply, e) = "decide_next_action"
                                 THEN "none"
                                 ELSE Executed(decide_next_action(e.reply), e),
                    missed |-> {},
                    failed |-> "none",
                    caught |-> {}]
        /\ UNCHANGED <<frame, task_description, step_idx, login_handled, history,
                       metadata, written, iterations, pauses, assigned>>

\* agent.py:394-414: click, fill, wait or the final screenshot raised
TurnFails ==
    \E d \in Pages : \E e \in Turns(d) :
        LET a == decide_next_action(e.reply)
        IN  /\ ConsultPlanner(d, e)
            /\ EscapesFrom(e.reply, e) = "none"
            /\ RaisedInTry(a, e) # "none"
            /\ metadata' =
                 AppendStep(
                   Assign(Stop(metadata, "action_error", d.url),
                          "error", RaisedInTry(a, e)),
                   ErrorRecord(step_idx, d, a, BeforePath(step_idx, a),
                               ErrorPath(step_idx, e), RaisedInTry(a, e)))
            /\ assigned' = StopCounted(assigned)
            /\ last' = [reply |-> ReplyClass(e.reply),
                        executed |-> "none",
                        missed |-> Missed(Captures(a, e)) \ {"none"},
                        failed |-> RaisedInTry(a, e),
                        caught |-> IF screenshot_raises(e.error)
                                   THEN {"after"}
                                   ELSE {}]
            /\ iterations' = iterations + 1
            /\ pc' = "save"
            /\ UNCHANGED <<frame, task_description, step_idx, login_handled, history,
                           written, raised, pauses>>

\* agent.py:379-393: the planner says done
TurnDone ==
    \E d \in Pages : \E e \in Turns(d) :
        LET a == decide_next_action(e.reply)
        IN  /\ ConsultPlanner(d, e)
            /\ EscapesFrom(e.reply, e) = "none"
            /\ RaisedInTry(a, e) = "none"
            /\ Dispatch(a) = "done"
            /\ metadata' =
                 AppendStep(
                   Stop(metadata, "llm_done", d.url),
                   StepRecord(step_idx, d, a, BeforePath(step_idx, a),
                              Path(step_idx, "final")))
            /\ assigned' = StopCounted(assigned)
            /\ last' = [reply |-> ReplyClass(e.reply),
                        executed |-> "none",
                        missed |-> Missed(Captures(a, e)) \ {"none"},
                        failed |-> "none",
                        caught |-> {}]
            /\ iterations' = iterations + 1
            /\ pc' = "save"
            /\ UNCHANGED <<frame, task_description, step_idx, login_handled, history,
                           written, raised, pauses>>

\* agent.py:372-378, 416-442: the iteration runs to its end and the loop goes on
TurnCompletes ==
    \E d \in Pages : \E e \in Turns(d) :
        LET a == decide_next_action(e.reply)
        IN  /\ ConsultPlanner(d, e)
            /\ EscapesFrom(e.reply, e) = "none"
            /\ RaisedInTry(a, e) = "none"
            /\ Dispatch(a) # "done"
            /\ metadata' =
                 AppendStep(
                   metadata,
                   StepRecord(step_idx, d, a, BeforePath(step_idx, a),
                              AfterPath(step_idx, a)))
            /\ history' = Append(history, HistoryEntry(d, a))
            /\ last' = [reply |-> ReplyClass(e.reply),
                        executed |-> Executed(a, e),
                        missed |-> Missed(Captures(a, e)) \ {"none"},
                        failed |-> "none",
                        caught |-> {}]
            /\ iterations' = iterations + 1
            /\ step_idx' = step_idx + 1
            /\ UNCHANGED <<frame, pc, task_description, login_handled, written,
                           raised, pauses, assigned>>

\* agent.py:273: range(1, MAX_STEPS + 1) is exhausted
LoopExhausted ==
    /\ pc = "loop"
    /\ step_idx \notin StepRange
    /\ pc' = "save"
    /\ UNCHANGED <<frame, task_description, step_idx, login_handled, dom, history,
                   metadata, written, raised, iterations, planner_calls,
                   pauses, assigned, last, events>>

\* agent.py:444-449: json.dump(metadata) and return
SaveMetadata ==
    /\ pc = "save"
    /\ written' = written + 1
    /\ pc' = "returned"
    /\ UNCHANGED <<frame, task_description, step_idx, login_handled, dom, history,
                   metadata, raised, iterations, planner_calls, pauses,
                   assigned, last, events>>

Next ==
    \/ Start
    \/ SnapshotRaises
    \/ LoginPause
    \/ Acknowledge
    \/ StuckOnLogin
    \/ RepoDetected
    \/ IssueDetected
    \/ TurnRaises
    \/ TurnFails
    \/ TurnDone
    \/ TurnCompletes
    \/ LoopExhausted
    \/ SaveMetadata

Spec ==
    Init /\ [][Next]_vars

\* The run is one thread of control: a call that returns or raises is
\* followed by the next statement, and the ENTER that input() waits for at
\* agent.py:287 arrives.
SpecLive ==
    Spec /\ WF_vars(Next)

----------------------------------------------------------------------------
(* Properties of run_task_workflow.                                        *)

Steps ==
    metadata.steps

LastStep ==
    Steps[Len(Steps)]

Stopped(reason) ==
    "stopped_reason" \in DOMAIN metadata /\ metadata.stopped_reason = reason

\* C1: every loop iteration that ran to its end (continue, break or falling
\* through) appended exactly one StepRecord; the exit of the loop on an
\* exhausted budget is no iteration and adds none.
C1_OneRecordPerIteration ==
    Len(Steps) = iterations

\* the calls C2 names: snapshot, planner, evidence captures; click, fill and
\* the planner's wait run inside the try block and are never in `raised`
C2_Calls ==
    {"get_dom_snapshot", "decide_next_action", "screenshot:before",
     "screenshot:after", "screenshot:after_login", "wait:settle"}

\* C2: whichever of these calls fails, no exception leaves run_task_workflow,
\* and metadata.json is written exactly once, with the steps attempted.
C2_NoEscapeOneJournal ==
    /\ raised \notin C2_Calls
    /\ written <= 1
    /\ pc = "returned" => written = 1

\* C3: when metadata is persisted, stopped_reason and final_url have each
\* been assigned exactly once, however the loop ended.
C3_TerminalFieldsAssignedOnce ==
    pc = "returned" =>
        /\ assigned.stopped_reason = 1
        /\ assigned.final_url = 1
        /\ {"stopped_reason", "final_url"} \subseteq DOMAIN metadata

ManualLogins ==
    Cardinality({i \in DOMAIN Steps :
                    Steps[i].action.action_type = "manual_login"})

\* C4: the run blocks for the operator at most once and appends at most one
\* manual_login record, and login_handled never goes back to false.
C4_LoginPauseAtMostOnce ==
    [][/\ pauses' <= 1
       /\ ManualLogins' <= 1
       /\ login_handled => login_handled']_vars

\* a run that paused once and later met a login page again
C4_Witness ==
    pauses = 1 /\ login_handled /\ Stopped("stuck_on_login")

\* C5: the planner is consulted at most MAX_STEPS times in a run.
C5_PlannerWithinBudget ==
    planner_calls <= MAX_STEPS

\* a run that spent its whole budget on the planner
C5_Witness ==
    planner_calls = MAX_STEPS /\ pc = "returned"

\* C6 as stated: the journal that is written holds as many records as
\* iterations reached the planner decision or the manual-login pause.
C6_RecordsCountPlannerAndPause ==
    pc = "returned" => Len(Steps) = planner_calls + pauses

SuccessStops ==
    IF Stopped("github_repo_detected") \/ Stopped("github_issue_detected")
    THEN 1
    ELSE 0

\* C6 amended: the journal that is written holds as many records as iterations
\* reached the planner decision, the manual-login pause or a success stop;
\* the exhausted budget adds none.
C6_RecordsCountAlsoSuccessStop ==
    pc = "returned" => Len(Steps) = planner_calls + pauses + SuccessStops

\* a written journal with a pause, a planner step and a success stop
C6_Witness ==
    /\ pc = "returned"
    /\ Stopped("github_repo_detected")
    /\ pauses = 1
    /\ planner_calls >= 1

EvidenceCalls ==
    {"screenshot:before", "screenshot:after", "screenshot:after_login",
     "screenshot:login_stuck", "screenshot:final_repo",
     "screenshot:final_issue"}

\* C7: a failed capture never ends the run by an exception, and the record of
\* an iteration has a null before (after) when that capture wrote no image.
C7_CaptureFailureTolerated ==
    /\ raised \notin EvidenceCalls
    /\ Steps # <<>> =>
        /\ "before" \in last.missed => LastStep.before = NoPath
        /\ "after" \in last.missed => LastStep.after = NoPath

\* C8: a reply that is not a JSON object (not JSON at all, or JSON of another
\* type) makes decide_next_action return a done action without raising, and,
\* when no capture fails, the run ends as llm_done with a done record.
C8_MalformedReplyEndsAsDone ==
    last.reply \in {"unparsable", "not_object"} =>
        /\ raised # "decide_next_action"
        /\ (raised = "none" /\ "error" \notin DOMAIN metadata) =>
            /\ Stopped("llm_done")
            /\ LastStep.action.action_type = "done"

\* C9: every ActionRecord of the planner has action_type click, type, wait or
\* done (the journal also holds the two synthetic markers).
C9_ActionTypeIsKnown ==
    \A i \in DOMAIN Steps :
        Steps[i].action.action_type \in
            {"click", "type", "wait", "done", "manual_login", "auto_done"}

\* a click without selector or a type without text
MissingRequiredField(a) ==
    \/ a.action_type = "click" /\ ~Truthy(a.selector)
    \/ a.action_type = "type" /\ ~Truthy(a.text)

\* C10: an action that lacks its required field is not executed and ends the
\* run; the loop does not go on to another step.
C10_UnexecutableActionEndsRun ==
    (Steps # <<>> /\ MissingRequiredField(LastStep.action)) =>
        /\ last.executed = "none"
        /\ pc \notin {"loop", "input"}

SnapshotTaken ==
    AtLoopHead /\ raised' # "get_dom_snapshot"

SuccessPage(d) ==
    <<d, task_description>> \in RepoPages \cup IssuePages

C24_StepIndicesContiguous ==
    [][/\ Len(Steps') >= Len(Steps)
       /\ SubSeq(Steps', 1, Len(Steps)) = Steps
       /\ \A k \in DOMAIN Steps' : Steps'[k].step = k]_vars

\* a journal of a manual login, a planner action and a success stop
C24_Witness ==
    /\ Len(Steps) = 3
    /\ Steps[1].action.action_type = "manual_login"
    /\ Steps[2].action.action_type \notin {"manual_login", "auto_done"}
    /\ Steps[3].action.action_type = "auto_done"
    /\ Steps[3].step = 3
    /\ written = 1

\* C25: the step that sets stopped_reason appends at most the record of its
\* own iteration and leaves the loop; after it nothing is snapshotted, asked
\* of the planner or done on the page, and the one step left is the write of
\* metadata.json, made once.
C25_NothingAfterStop ==
    [][/\ (assigned.stopped_reason = 0 /\ assigned'.stopped_reason = 1) =>
            /\ pc' = "save"
            /\ \/ Steps' = Steps
               \/ /\ Len(Steps') = Len(Steps) + 1
                  /\ SubSeq(Steps', 1, Len(Steps)) = Steps
                  /\ Steps'[Len(Steps')].step = step_idx
       /\ "stopped_reason" \in DOMAIN metadata =>
            /\ written = 0 /\ written' = 1
            /\ pc' = "returned"
            /\ UNCHANGED <<metadata, dom, history, planner_calls, pauses,
                           iterations, step_idx, last, events, raised>>]_vars

\* the planner said done at the second step or later and the journal is
\* written
C25_Witness ==
    /\ Stopped("llm_done")
    /\ Len(Steps) >= 2
    /\ LastStep.step = step_idx
    /\ pc = "returned"
    /\ written = 1

\* C26: each iteration takes one unit of the budget, the login pause and the
\* iterations a guardrail ends included: the loop is at step k + 1 after k
\* iterations, a run makes at most MAX_STEPS iterations, and a run that
\* paused for a manual login consults the planner at most MAX_STEPS - 1
\* times.
C26_EveryIterationSpendsBudget ==
    /\ iterations <= MAX_STEPS
    /\ pc = "loop" => step_idx = iterations + 1
    /\ planner_calls + pauses <= step_idx
    /\ pauses >= 1 => planner_calls <= MAX_STEPS - 1

\* a run that paused once and spent the rest of its budget on the planner
C26_Witness ==
    /\ pauses = 1
    /\ planner_calls = MAX_STEPS - 1
    /\ iterations = MAX_STEPS
    /\ pc = "returned"

\* C23: every run makes at most MAX_STEPS iterations, leaves its loop and
\* writes metadata.json, whether the calls it makes return or raise, once
\* the operator has acknowledged the login pause.
C23_RunReachesMetadataWrite ==
    /\ [](iterations <= MAX_STEPS)
    /\ <>(pc = "returned" /\ written = 1)

----------------------------------------------------------------------------
(* BrowserController.click and BrowserController.fill taken alone          *)
(* (browser.py:76-357).  `frame` holds one call: its arguments, the        *)
(* strategy it is at, the strategies entered so far (tried), the clicks    *)
(* and fills it made on the page, and how it left.  What each Playwright   *)
(* call meets on the live page is the environment's choice.                *)

\* run_task_workflow is not running while one call is examined
RunNotStarted ==
    /\ pc = "start"
    /\ task_description = TaskCreateRepo
    /\ step_idx = 1
    /\ login_handled = FALSE
    /\ dom = NoDom
    /\ history = <<>>
    /\ metadata = [task_description |-> task_description, steps |-> <<>>]
    /\ written = 0
    /\ raised = "none"
    /\ iterations = 0
    /\ planner_calls = 0
    /\ pauses = 0
    /\ assigned = [stopped_reason |-> 0, final_url |-> 0]
    /\ last = NoLast
    /\ events = 0

RunIdle ==
    UNCHANGED <<pc, task_description, step_idx, login_handled, dom, history,
                metadata, written, raised, iterations, planner_calls, pauses,
                assigned, last, events>>

\* str.strip(), of the whitespace the strings of the model are made with
Strip(s) ==
    LET kept == {i \in 1..Len(s) : s[i] \notin {" ", "\t", "\n"}}
    IN  IF kept = {} THEN <<>>
        ELSE SubSeq(s, CHOOSE i \in kept : \A j \in kept : i <= j,
                       CHOOSE i \in kept : \A j \in kept : i >= j)

\* None where a str is expected, among strings kept as character sequences
NoString ==
    <<NONE>>

\* browser.py:85 and 290:
\* label and any(ch in label for ch in ("#", ".", "[", ">", ":"))
LooksStructural(label) ==
    /\ label # <<>>
    /\ \E i \in 1..Len(label) : label[i] \in {"#", ".", "[", ">", ":"}

\* The selectors a call is examined with: none, blank, a CSS selector, and
\* an accessible name with blanks around it.
SelCss ==
    <<"#", "g", "o">>

Selectors ==
    {NoString, <<" ">>, SelCss, <<" ", "G", "o", " ">>}

\* Elements of the page as the scan of strategy 4 meets them: whether
\* is_visible() says yes, says no or raises, and what inner_text() returns
\* (NoString: it raises). The texts: the label, the label in capitals with
\* whitespace around it, a text that contains the label, a text that does
\* not, and a blank one.
\* the longest list of elements a query returns
MaxCandidates == 3

CandidateLists ==
    LET Candidates ==
            {[visible |-> "yes", text |-> t] :
                t \in {<<"g", "o">>,
                       <<" ", "G", "O", "\n">>,
                       <<"L", "e", "t", "'", "s", " ", "g", "o">>,
                       <<"S", "t", "o", "p">>,
                       <<" ">>,
                       NoString}}
            \cup {[visible |-> v, text |-> <<"g", "o">>] :
                    v \in {"no", "raises"}}
    IN  UNION {[1..n -> Candidates] : n \in 0..MaxCandidates}

\* browser.py:127-131 with the exact match scored as a containment
Score_flat(txt, label) ==
    IF Contains(Lower(txt), Lower(label)) THEN 2 ELSE 0

\* browser.py:127-131: the score of one element's text
Score(txt, label) ==
    IF Lower(txt) = Lower(label) THEN 3
    ELSE IF Contains(Lower(txt), Lower(label)) THEN 2
    ELSE 0

\* browser.py:116-136: the loop over the candidates from element i on, given
\* the best element and score so far; 0 is `best_el = None`. Lines 121-125
\* skip an element that is not visible or has no text.
RECURSIVE ScanFrom(_, _, _, _, _)
ScanFrom(cands, label, i, best_el, best_score) ==
    IF i > Len(cands) THEN best_el
    ELSE IF \/ cands[i].visible # "yes"
            \/ cands[i].text = NoString
            \/ Strip(cands[i].text) = <<>>
    THEN ScanFrom(cands, label, i + 1, best_el, best_score)
    ELSE IF Score(Strip(cands[i].text), label) > best_score
    THEN ScanFrom(cands, label, i + 1, i, Score(Strip(cands[i].text), label))
    ELSE ScanFrom(cands, label, i + 1, best_el, best_score)

\* Elements as strategy 5 meets them: is_visible() and whether el.click()
\* goes through.
\* the longest list of elements strategy 5 is examined with
MaxClickables == 2

ClickableLists ==
    LET Clickables ==
            {[visible |-> "yes", click |-> TRUE],
             [visible |-> "yes", click |-> FALSE],
             [visible |-> "no", click |-> TRUE],
             [visible |-> "raises", click |-> TRUE]}
    IN  UNION {[1..n -> Clickables] : n \in 0..MaxClickables}

\* browser.py:150-157: the el.click() calls of strategy 5 from element i on,
\* up to the first that goes through
RECURSIVE FirstVisibleFrom(_, _)
FirstVisibleFrom(els, i) ==
    IF i > Len(els) THEN <<>>
    ELSE IF els[i].visible # "yes" THEN FirstVisibleFrom(els, i + 1)
    ELSE IF els[i].click
    THEN <<[strategy |-> "first_visible", el |-> i, ok |-> TRUE]>>
    ELSE <<[strategy |-> "first_visible", el |-> i, ok |-> FALSE]>>
         \o FirstVisibleFrom(els, i + 1)

\* the call has raised nothing
NoError ==
    [message |-> "", selector |-> NoString]

\* the most pages the browsing context holds when click is entered
MaxPages == 2

\* browser.py:70-72: the index of self.page after _switch_to_new_page
switch_to_new_page(pages, active) ==
    IF pages > 1 THEN pages ELSE active

\* one click attempt of `strategy` on element `el` (0: a locator)
Click(strategy, el, ok) ==
    [strategy |-> strategy, el |-> el, ok |-> ok]

\* AfterStrategy without the return on a click that went through
AfterStrategy_goes_on(c, strategy, made, next, opened) ==
    [c EXCEPT !.tried = Append(@, strategy),
              !.clicks = @ \o made,
              !.at = next]

\* The strategy `strategy` was entered and made the click attempts `made`.
\* If the last of them went through, it opened `opened` new pages,
\* _switch_to_new_page runs and the call returns; otherwise the call is at
\* `next`.
AfterStrategy(c, strategy, made, next, opened) ==
    LET won == made # <<>> /\ made[Len(made)].ok
        t == [c EXCEPT !.tried = Append(@, strategy), !.clicks = @ \o made]
    IN  IF won
        THEN [t EXCEPT !.pages = @ + opened,
                       !.active = switch_to_new_page(c.pages + opened, @),
                       !.at = "returned"]
        ELSE [t EXCEPT !.at = next]

AtClick(position) ==
    frame.method = "click" /\ frame.at = position

\* browser.py:84-91: strategy 1, the label as a CSS selector
ClickStructural ==
    /\ AtClick("structural")
    /\ IF LooksStructural(frame.label)
       THEN \E ok \in BOOLEAN, opened \in 0..1 :
               frame' = AfterStrategy(frame, "structural",
                                      <<Click("structural", 0, ok)>>,
                                      "role:button", opened)
       ELSE frame' = [frame EXCEPT !.at = "role:button"]
    /\ RunIdle

\* the roles of strategy 2 in their order, then the strategy that follows
RoleOrder ==
    <<"role:button", "role:link", "role:tab", "text">>

\* browser.py:93-100: strategy 2, one role of the loop
ClickRole ==
    /\ frame.method = "click"
    /\ \E r \in 1..3, ok \in BOOLEAN, opened \in 0..1 :
        /\ frame.at = RoleOrder[r]
        /\ frame' = AfterStrategy(frame, RoleOrder[r],
                                  <<Click(RoleOrder[r], 0, ok)>>,
                                  RoleOrder[r + 1], opened)
    /\ RunIdle

\* browser.py:102-109: strategy 3, the visible text
ClickText ==
    /\ AtClick("text")
    /\ IF frame.label # <<>>
       THEN \E ok \in BOOLEAN, opened \in 0..1 :
               frame' = AfterStrategy(frame, "text",
                                      <<Click("text", 0, ok)>>, "scan",
                                      opened)
       ELSE frame' = [frame EXCEPT !.at = "scan"]
    /\ RunIdle

\* browser.py:111-143: strategy 4, the best-match scan; the query may raise,
\* and so may the click on the element chosen
ClickScan ==
    /\ AtClick("scan")
    /\ \/ frame' = AfterStrategy(frame, "scan", <<>>, "first_visible", 0)
       \/ \E cands \in CandidateLists, ok \in BOOLEAN, opened \in 0..1 :
            LET best == ScanFrom(cands, frame.label, 1, 0, 0)
                seen == [frame EXCEPT !.candidates = cands]
            IN  IF best = 0
                THEN frame' = AfterStrategy(seen, "scan", <<>>,
                                            "first_visible", 0)
                ELSE frame' = AfterStrategy(seen, "scan",
                                            <<Click("scan", best, ok)>>,
                                            "first_visible", opened)
    /\ RunIdle

\* browser.py:145-159: strategy 5, the first visible button or link
ClickFirstVisible ==
    /\ AtClick("first_visible")
    /\ \/ frame' = AfterStrategy(frame, "first_visible", <<>>, "exhausted",
                                  0)
       \/ \E els \in ClickableLists, opened \in 0..1 :
            frame' = AfterStrategy([frame EXCEPT !.candidates = els],
                                   "first_visible",
                                   FirstVisibleFrom(els, 1), "exhausted",
                                   opened)
    /\ RunIdle

\* browser.py:161: raise Exception(f"Could not click using selector: {selector}")
ClickRaises ==
    /\ AtClick("exhausted")
    /\ frame' = [frame EXCEPT !.at = "raised",
                              !.error = [message |-> "Could not click using selector: ",
                                         selector |-> frame.selector]]
    /\ RunIdle

----------------------------------------------------------------------------
(* BrowserController.fill (browser.py:165-357).                            *)

\* the pages fill is examined on
FillPages ==
    {PageNewRepo,
     PageRepo,
     \* the form of a new issue
     [url |-> <<"h", "t", "t", "p", "s", ":", "/", "/", "g", "i", "t", "h", "u", "b", ".", "c", "o", "m", "/", "u", "/", "d", "e", "m", "o", "/", "i", "s", "s", "u", "e", "s", "/", "n", "e", "w">>,
      visible_text |-> <<"N", "e", "w", " ", "i", "s", "s", "u", "e">>]}

\* the text fill is examined with
TextDemo ==
    <<"d", "e", "m", "o">>

\* What one template hook meets once its form is on the page: whether the
\* name/title field is found (or the lookup raises), its value, whether the
\* pause before the submit returns, and the submit: the control whose click
\* goes through (1..4), 0 when every click raises, 5 when the three locators
\* raise and the form has no visible submit button.
HookEnvs ==
    {[field |-> "missing", value |-> <<>>, settle |-> TRUE, submit |-> 1],
     [field |-> "raises", value |-> <<>>, settle |-> TRUE, submit |-> 1],
     [field |-> "found", value |-> <<>>, settle |-> TRUE, submit |-> 1],
     [field |-> "found", value |-> <<" ">>, settle |-> TRUE, submit |-> 1],
     [field |-> "found", value |-> TextDemo, settle |-> FALSE, submit |-> 1]}
    \cup {[field |-> "found", value |-> TextDemo, settle |-> TRUE,
           submit |-> k] : k \in 0..5}

\* browser.py:200-221 and 241-261: the clicks of a hook's submit cascade,
\* on the submit controls in the order they are tried
SubmitClicks(submit) ==
    LET controls == <<"role:first", "role:second", "text", "form">>
        last_tried == IF submit = 0 THEN 4
                      ELSE IF submit = 5 THEN 3
                      ELSE submit
    IN  [k \in 1..last_tried |->
            [control |-> controls[k], ok |-> (k = submit)]]

\* browser.py:184-187 and 224-227: the template's form is on the page, by
\* the URL and the body text read when fill was entered
HookApplies(c, template) ==
    IF template = "repo"
    THEN /\ Contains(c.url, GithubHost)
         /\ Contains(c.url, NewMarker)
         /\ Contains(c.body_text, CreateRepoBanner)
    ELSE /\ Contains(c.url, GithubHost)
         /\ Contains(c.url, IssuesNewMarker)
         /\ Contains(c.body_text, NewIssueText)

\* a hook that goes on to the submit whatever the value of the field
HookRun_unchecked(c, template, h) ==
    LET quiet == [template |-> template, applies |-> FALSE,
                  field |-> "unasked", value |-> <<>>, clicks |-> <<>>,
                  raised |-> FALSE]
    IN  IF ~HookApplies(c, template) THEN quiet
        ELSE IF h.field # "found"
        THEN [quiet EXCEPT !.applies = TRUE, !.field = h.field]
        ELSE [quiet EXCEPT !.applies = TRUE, !.field = "found",
                           !.value = h.value,
                           !.clicks = SubmitClicks(h.submit)]

\* browser.py:183-221 (maybe_submit_github_new_repo) and 223-261
\* (maybe_submit_github_new_issue): one run of a hook, as a record of what it
\* looked at and clicked, and whether it raised
HookRun(c, template, h) ==
    LET quiet == [template |-> template, applies |-> FALSE,
                  field |-> "unasked", value |-> <<>>, clicks |-> <<>>,
                  raised |-> FALSE]
    IN  IF ~HookApplies(c, template) THEN quiet
        ELSE IF h.field # "found"
        THEN [quiet EXCEPT !.applies = TRUE, !.field = h.field]
        ELSE IF Strip(h.value) = <<>>
        THEN [quiet EXCEPT !.applies = TRUE, !.field = "found",
                           !.value = h.value]
        ELSE IF ~h.settle
        THEN [quiet EXCEPT !.applies = TRUE, !.field = "found",
                           !.value = h.value, !.raised = TRUE]
        ELSE [quiet EXCEPT !.applies = TRUE, !.field = "found",
                           !.value = h.value,
                           !.clicks = SubmitClicks(h.submit)]

\* the placeholder tried before the label as a CSS selector
FillOrder_placeholder_first ==
    <<"repo:name", "repo:id", "issue:title", "issue:id", "placeholder",
      "structural", "textbox:label", "textbox:search",
      "textbox:search_github", "textbox:jump_ellipsis", "textbox:jump_dots",
      "input", "focus", "exhausted">>

\* the strategies of fill in their order
FillOrder ==
    <<"repo:name", "repo:id", "issue:title", "issue:id", "structural",
      "placeholder", "textbox:label", "textbox:search",
      "textbox:search_github", "textbox:jump_ellipsis", "textbox:jump_dots",
      "input", "focus", "exhausted">>

\* the hooks strategy `p` runs after its fill went through
\* (browser.py:271, 282, 294-295)
Hooks(p) ==
    IF p \in {"repo:name", "repo:id"} THEN <<"repo">>
    ELSE IF p \in {"issue:title", "issue:id"} THEN <<"issue">>
    ELSE <<"repo", "issue">>

\* Strategy `p` made one fill attempt; when it went through the hooks of `p`
\* run in turn with what they meet in `hs`, one that raises ending the
\* sequence, and the call returns, unless a hook raised: the except clause
\* of the strategy then takes it for a failure and the chain goes on at
\* `next`.
AfterFill(c, p, ok, hs, next) ==
    LET t == [c EXCEPT !.tried = IF @ # <<>> /\ @[Len(@)] = p
                                 THEN @ ELSE Append(@, p),
                       !.fills = Append(@, [strategy |-> p, ok |-> ok])]
        first == HookRun(c, Hooks(p)[1], hs[1])
        ran == IF Len(Hooks(p)) = 1 \/ first.raised THEN <<first>>
               ELSE <<first, HookRun(c, Hooks(p)[2], hs[2])>>
    IN  IF ~ok THEN [t EXCEPT !.at = next]
        ELSE [t EXCEPT !.checks = @ \o ran,
                       !.at = IF ran[Len(ran)].raised THEN next
                              ELSE "returned"]

\* Elements as strategy 4 meets them: is_visible() and whether click, fill
\* and type go through.
\* the longest list of inputs strategy 4 is examined with
MaxInputs == 2

InputLists ==
    LET Inputs ==
            {[visible |-> "yes", ok |-> TRUE],
             [visible |-> "yes", ok |-> FALSE],
             [visible |-> "no", ok |-> TRUE],
             [visible |-> "raises", ok |-> TRUE]}
    IN  UNION {[1..n -> Inputs] : n \in 0..MaxInputs}

AtFill(positions) ==
    frame.method = "fill" /\ frame.at \in positions

\* how many hooks of one call may raise
MaxHookRaises == 1

\* what the k-th hook of strategy `p` can meet: nothing when it is not run
\* or its form is not on the page
HookChoices(c, p, k) ==
    IF k <= Len(Hooks(p)) /\ HookApplies(c, Hooks(p)[k])
    THEN HookEnvs
    ELSE {[field |-> "missing", value |-> <<>>, settle |-> TRUE,
           submit |-> 1]}

\* The fill of strategy `p` on the call `c` went through or not, and its
\* hooks ran when it did.
FillOutcome(c, p, ok, next) ==
    \E h1 \in HookChoices(c, p, 1), h2 \in HookChoices(c, p, 2) :
        LET after == AfterFill(c, p, ok, <<h1, h2>>, next)
            raises == {i \in DOMAIN after.checks : after.checks[i].raised}
        IN  /\ Cardinality(raises) <= MaxHookRaises
            /\ frame' = after

\* one strategy that is a single fill attempt, or is skipped by its guard
\* (browser.py:266, 277, 290, 301, 319)
FillStrategy ==
    LET p == frame.at
        next == FillOrder[1 + CHOOSE i \in 1..Len(FillOrder) :
                                  FillOrder[i] = p]
        applies ==
            IF p \in {"repo:name", "repo:id"}
            THEN /\ Contains(frame.url, GithubHost)
                 /\ Contains(frame.url, NewMarker)
                 /\ Contains(frame.body_text, CreateRepoBanner)
            ELSE IF p \in {"issue:title", "issue:id"}
            THEN /\ Contains(frame.url, GithubHost)
                 /\ Contains(frame.url, IssuesNewMarker)
            ELSE IF p = "structural" THEN LooksStructural(frame.label)
            ELSE IF p \in {"placeholder", "textbox:label"}
            THEN frame.label # <<>>
            ELSE TRUE
    IN  IF applies
        THEN \E ok \in BOOLEAN : FillOutcome(frame, p, ok, next)
        ELSE frame' = [frame EXCEPT !.at = next]

\* browser.py:265-274: the repository form, by its two known selectors
FillTemplateRepo ==
    /\ AtFill({"repo:name", "repo:id"})
    /\ FillStrategy
    /\ RunIdle

\* browser.py:276-285: the issue form, by its two known selectors
FillTemplateIssue ==
    /\ AtFill({"issue:title", "issue:id"})
    /\ FillStrategy
    /\ RunIdle

\* browser.py:289-298: generic strategy 1, the label as a CSS selector
FillStructural ==
    /\ AtFill({"structural"})
    /\ FillStrategy
    /\ RunIdle

\* browser.py:300-308: generic strategy 2, the placeholder
FillPlaceholder ==
    /\ AtFill({"placeholder"})
    /\ FillStrategy
    /\ RunIdle

\* browser.py:310-327: generic strategy 3, one name of the textbox loop
FillTextbox ==
    /\ AtFill({"textbox:label", "textbox:search", "textbox:search_github",
               "textbox:jump_ellipsis", "textbox:jump_dots"})
    /\ FillStrategy
    /\ RunIdle

\* browser.py:329-333 and 345-346: generic strategy 4, the query for inputs
FillInputQuery ==
    /\ AtFill({"input"})
    /\ \/ frame' = [frame EXCEPT !.tried = Append(@, "input"),
                                 !.at = "focus"]
       \/ \E els \in InputLists :
            frame' = [frame EXCEPT !.tried = Append(@, "input"),
                                   !.candidates = els,
                                   !.next_el = 1,
                                   !.at = "input:el"]
    /\ RunIdle

\* browser.py:334-344: generic strategy 4, one element of the loop
FillInputElement ==
    /\ AtFill({"input:el"})
    /\ LET i == frame.next_el
           on == [frame EXCEPT !.next_el = i + 1]
       IN  IF i > Len(frame.candidates)
           THEN frame' = [frame EXCEPT !.at = "focus"]
           ELSE IF frame.candidates[i].visible # "yes"
           THEN frame' = on
           ELSE FillOutcome(on, "input", frame.candidates[i].ok,
                            "input:el")
    /\ RunIdle

\* browser.py:348-355: generic strategy 5, typing into the focused element
FillFocus ==
    /\ AtFill({"focus"})
    /\ FillStrategy
    /\ RunIdle

\* browser.py:357: raise Exception(f"Could not fill using selector: {selector}")
FillRaises ==
    /\ AtFill({"exhausted"})
    /\ frame' = [frame EXCEPT !.at = "raised",
                              !.error = [message |-> "Could not fill using selector: ",
                                         selector |-> frame.selector]]
    /\ RunIdle

\* A call of click (browser.py:76-82) or of fill (browser.py:172-179) as it
\* is entered. The label is (selector or "").strip(). On click the context
\* holds `pages` pages and self.page is the `active`-th of them; on fill the
\* body text that cannot be read counts as empty. One call of fill, with a
\* blank selector, is on the form of a new issue whose text also holds the
\* banner of the repository form.
InitResolver ==
    LET BothForms ==
            [url |-> <<"h", "t", "t", "p", "s", ":", "/", "/", "g", "i",
                       "t", "h", "u", "b", ".", "c", "o", "m", "/", "u",
                       "/", "d", "e", "m", "o", "/", "i", "s", "s", "u",
                       "e", "s", "/", "n", "e", "w">>,
             visible_text |-> <<"N", "e", "w", " ", "i", "s", "s", "u", "e",
                                ".", " ", "C", "r", "e", "a", "t", "e", " ",
                                "a", " ", "n", "e", "w", " ", "r", "e", "p",
                                "o", "s", "i", "t", "o", "r", "y">>]
        label(selector) ==
            Strip(IF selector = NoString THEN <<>> ELSE selector)
        ClickCall(selector, pages, active) ==
            [method |-> "click",
             selector |-> selector,
             label |-> label(selector),
             at |-> "structural",
             tried |-> <<>>,
             clicks |-> <<>>,
             candidates |-> <<>>,
             pages |-> pages,
             active |-> active,
             error |-> NoError]
        FillCall(selector, text, page, readable) ==
            [method |-> "fill",
             selector |-> selector,
             text |-> text,
             label |-> label(selector),
             url |-> Lower(page.url),
             body_text |-> IF readable THEN Lower(page.visible_text)
                           ELSE <<>>,
             at |-> "repo:name",
             tried |-> <<>>,
             fills |-> <<>>,
             checks |-> <<>>,
             candidates |-> <<>>,
             next_el |-> 1,
             error |-> NoError]
    IN  /\ RunNotStarted
        /\ frame \in UNION {{ClickCall(s, n, a) :
                                  s \in Selectors, a \in 1..n} :
                                n \in 1..MaxPages}
                     \cup {FillCall(s, TextDemo, p, r) :
                              s \in Selectors, p \in FillPages,
                              r \in BOOLEAN}
                     \cup {FillCall(<<" ">>, TextDemo, BothForms, TRUE)}

NextResolver ==
    \/ ClickStructural
    \/ ClickRole
    \/ ClickText
    \/ ClickScan
    \/ ClickFirstVisible
    \/ ClickRaises
    \/ FillTemplateRepo
    \/ FillTemplateIssue
    \/ FillStructural
    \/ FillPlaceholder
    \/ FillTextbox
    \/ FillInputQuery
    \/ FillInputElement
    \/ FillFocus
    \/ FillRaises

SpecResolver ==
    InitResolver /\ [][NextResolver]_vars

----------------------------------------------------------------------------
(* Properties of click and fill.                                           *)

\* the label holds one of the characters # . [ > :
HasStructuralChar(label) ==
    \E i \in 1..Len(label) : label[i] \in {"#", ".", "[", ">", ":"}

\* the strategies of click and fill that go by role, placeholder, text or a
\* scan of the page
ByNameStrategies ==
    {"role:button", "role:link", "role:tab", "text", "scan", "first_visible",
     "placeholder", "textbox:label", "textbox:search",
     "textbox:search_github", "textbox:jump_ellipsis", "textbox:jump_dots",
     "input", "focus"}

\* C14: in click and in fill, for a label with a structural-selector
\* character every strategy by role, placeholder, text or scan is entered
\* only after the label was tried as a structural locator; for a label
\* without such a character the structural locator is never tried.
C14_StructuralFirst ==
    frame.method \in {"click", "fill"} =>
        IF HasStructuralChar(frame.label)
        THEN \A i \in DOMAIN frame.tried :
                frame.tried[i] \in ByNameStrategies =>
                    \E j \in 1..(i - 1) : frame.tried[j] = "structural"
        ELSE \A i \in DOMAIN frame.tried : frame.tried[i] # "structural"

\* fill on the repository form with a CSS label: the form's two selectors
\* failed, then the label as a selector, then the placeholder went through
C14_Witness ==
    /\ frame.method = "fill"
    /\ frame.selector = SelCss
    /\ frame.tried = <<"repo:name", "repo:id", "structural", "placeholder">>
    /\ frame.at = "returned"

\* the scan of strategy 4 has just run
AfterScan ==
    /\ frame.method = "click"
    /\ frame.tried # <<>>
    /\ frame.tried[Len(frame.tried)] = "scan"

\* the element the scan clicked on, 0 if it clicked on none
ScanClicked ==
    IF frame.clicks # <<>> /\ frame.clicks[Len(frame.clicks)].strategy = "scan"
    THEN frame.clicks[Len(frame.clicks)].el
    ELSE 0

\* the candidate is visible and its text can be read
VisibleCandidate(i) ==
    /\ frame.candidates[i].visible = "yes"
    /\ frame.candidates[i].text # NoString

\* its text, trimmed, is the label but for the case
EqualsLabel(i) ==
    Lower(Strip(frame.candidates[i].text)) = Lower(frame.label)

\* its text, trimmed, contains the label but for the case
ContainsLabel(i) ==
    Contains(Lower(Strip(frame.candidates[i].text)), Lower(frame.label))

\* the first element of the set of indices S, 0 if it is empty
First(S) ==
    IF S = {} THEN 0 ELSE CHOOSE i \in S : \A j \in S : i <= j

\* the first candidate among `among` that equals the label, or else the
\* first that contains it, or else 0
BestOf(among) ==
    IF \E i \in among : EqualsLabel(i)
    THEN First({i \in among : EqualsLabel(i)})
    ELSE First({i \in among : ContainsLabel(i)})

\* C15 as stated: the scan clicks the first visible candidate whose text
\* equals the label, or else the first visible candidate whose text contains
\* it, and no candidate when none matches.
C15_ScanClicksBestVisible ==
    AfterScan =>
        ScanClicked = BestOf({i \in DOMAIN frame.candidates :
                                VisibleCandidate(i)})

\* C15 amended: the same among the visible candidates whose trimmed text is
\* not empty; a candidate without text is passed over by the scan, also when
\* the label is empty.
C15_ScanClicksBestWithText ==
    AfterScan =>
        ScanClicked = BestOf({i \in DOMAIN frame.candidates :
                                /\ VisibleCandidate(i)
                                /\ Strip(frame.candidates[i].text) # <<>>})

\* a containing candidate first, then two that equal the label: the scan
\* clicked the first of the two
C15_Witness ==
    /\ AfterScan
    /\ Len(frame.candidates) = 3
    /\ VisibleCandidate(1) /\ ContainsLabel(1) /\ ~EqualsLabel(1)
    /\ VisibleCandidate(2) /\ EqualsLabel(2)
    /\ VisibleCandidate(3) /\ EqualsLabel(3)
    /\ frame.label # <<>>
    /\ ScanClicked = 2
    /\ frame.at = "returned"

\* the strategies of click in their fixed order
ClickRank(strategy) ==
    CHOOSE k \in 1..7 :
        <<"structural", "role:button", "role:link", "role:tab", "text",
          "scan", "first_visible">>[k] = strategy

\* the clicks of the call that went through
ClicksThrough ==
    {i \in DOMAIN frame.clicks : frame.clicks[i].ok}

\* C19: a call of click makes at most one click that goes through, and
\* nothing after it; the strategies are entered in the fixed order, the
\* structural one only for a label that looks structural; a failed attempt
\* leads to the next strategy; the call returns only after a click that went
\* through and raises, with the selector it was given, only when none did and
\* the last strategy was tried.
C19_FirstSuccessWins ==
    frame.method = "click" =>
        /\ Cardinality(ClicksThrough) <= 1
        /\ \A i \in ClicksThrough :
                i = Len(frame.clicks) /\ frame.at = "returned"
        /\ \A i, j \in DOMAIN frame.tried :
                i < j => ClickRank(frame.tried[i]) < ClickRank(frame.tried[j])
        /\ \A i \in DOMAIN frame.clicks :
                /\ \E j \in DOMAIN frame.tried :
                        frame.tried[j] = frame.clicks[i].strategy
                /\ \A j \in DOMAIN frame.clicks :
                        i < j => ClickRank(frame.clicks[i].strategy)
                                    <= ClickRank(frame.clicks[j].strategy)
        /\ (\E i \in DOMAIN frame.tried : frame.tried[i] = "structural")
                <=> (HasStructuralChar(frame.label) /\ frame.tried # <<>>)
        /\ frame.at = "returned" => ClicksThrough # {}
        /\ frame.at = "raised" =>
                /\ ClicksThrough = {}
                /\ frame.tried[Len(frame.tried)] = "first_visible"
                /\ \A r \in {"role:button", "role:link", "role:tab", "scan"} :
                        \E j \in DOMAIN frame.tried : frame.tried[j] = r
                /\ frame.error.selector = frame.selector
        /\ frame.at # "raised" => frame.error = NoError

\* every strategy was tried on a CSS label and failed, two buttons of the
\* last one included, and the call raised
C19_Witness ==
    /\ frame.method = "click"
    /\ frame.at = "raised"
    /\ frame.selector = SelCss
    /\ Len(frame.tried) = 7
    /\ Len(frame.clicks) >= 7

\* C20: a template hook clicks a submit control only when its form is on the
\* page, its name/title field was found and the value read from the field is
\* not empty once trimmed; with the field missing, unreadable or empty the
\* hook makes no click.
C20_SubmitOnlyWhenFieldFilled ==
    frame.method = "fill" =>
        \A i \in DOMAIN frame.checks :
            LET check == frame.checks[i]
            IN  /\ check.clicks # <<>> =>
                    /\ check.applies
                    /\ check.field = "found"
                    /\ Strip(check.value) # <<>>
                /\ \A k \in DOMAIN check.clicks :
                        check.clicks[k].ok => k = Len(check.clicks)

\* on the issue form the title was filled, the hook found it filled and the
\* third submit control went through after the first two raised
C20_Witness ==
    /\ frame.method = "fill"
    /\ frame.at = "returned"
    /\ \E i \in DOMAIN frame.checks :
            /\ frame.checks[i].template = "issue"
            /\ frame.checks[i].field = "found"
            /\ Len(frame.checks[i].clicks) = 3
            /\ frame.checks[i].clicks[3].ok

\* the hooks that ran after the last fill attempt of the call: those after
\* the last hook that raised
ChecksAfterLastFill ==
    LET raises == {i \in DOMAIN frame.checks : frame.checks[i].raised}
        from == IF raises = {} THEN 1
                ELSE 1 + CHOOSE i \in raises : \A j \in raises : j <= i
    IN  {frame.checks[i] : i \in from..Len(frame.checks)}

\* C21: when fill returns, the fill that went through, by a site-template
\* strategy or by a generic one, was followed by a check of the repository
\* form and by a check of the issue form; and a check of a template whose
\* form is not on the page makes no click.
C21_BothTemplatesRechecked ==
    (frame.method = "fill" /\ frame.at = "returned") =>
        /\ frame.fills # <<>> /\ frame.fills[Len(frame.fills)].ok
        /\ \A template \in {"repo", "issue"} :
                \E check \in ChecksAfterLastFill : check.template = template
        /\ \A i \in DOMAIN frame.checks :
                ~frame.checks[i].applies => frame.checks[i].clicks = <<>>

\* C22: when a call of click returns, the active page is the last page of
\* the context if the click opened a page, and the page that was active
\* before the click if it opened none, however many pages the context held.
C22_ActivePageAfterClick ==
    [][(/\ frame.method = "click"
        /\ frame.at # "returned"
        /\ frame'.at = "returned") =>
            IF frame'.pages > frame.pages
            THEN frame'.active = frame'.pages
            ELSE frame'.active = frame.active]_vars

----------------------------------------------------------------------------
(* The detectors of agent.py taken alone: `frame` holds a snapshot and a   *)
(* task description, the detectors called on them and their verdicts.      *)

\* the URLs the detectors are examined on
DetectUrls ==
    {\* an unrelated site
     <<"h", "t", "t", "p", "s", ":", "/", "/", "e", "x", "a", "m", "p",
       "l", "e", ".", "c", "o", "m", "/", "d", "o", "c", "s">>,
     \* the identity provider, in mixed case
     <<"h", "t", "t", "p", "s", ":", "/", "/", "A", "c", "c", "o", "u",
       "n", "t", "s", ".", "G", "o", "o", "g", "l", "e", ".", "c", "o",
       "m", "/", "s", "i", "g", "n", "i", "n">>,
     \* the login page
     <<"h", "t", "t", "p", "s", ":", "/", "/", "g", "i", "t", "h", "u",
       "b", ".", "c", "o", "m", "/", "l", "o", "g", "i", "n">>,
     \* the creation form, in mixed case
     <<"h", "t", "t", "p", "s", ":", "/", "/", "G", "i", "t", "H", "u",
       "b", ".", "c", "o", "m", "/", "n", "e", "w">>,
     \* a repository
     <<"h", "t", "t", "p", "s", ":", "/", "/", "g", "i", "t", "h", "u",
       "b", ".", "c", "o", "m", "/", "u", "/", "d", "e", "m", "o">>}

\* the page texts the detectors are examined on
DetectTexts ==
    {\* no marker phrase
     <<"W", "e", "l", "c", "o", "m", "e">>,
     \* one marker phrase
     <<"S", "i", "g", "n", " ", "I", "n">>,
     \* two marker phrases
     <<"S", "I", "G", "N", " ", "I", "N", " ", "o", "r", " ", "S", "i",
       "g", "n", " ", "u", "p">>,
     \* "log in" and "log into" in one phrase
     <<"L", "o", "g", " ", "i", "n", "t", "o", " ", "G", "i", "t", "H",
       "u", "b">>,
     \* the banner of the creation form
     <<"C", "r", "e", "a", "t", "e", " ", "a", " ", "n", "e", "w", " ",
       "r", "e", "p", "o", "s", "i", "t", "o", "r", "y">>,
     \* the banner in mixed case and one marker phrase
     <<"C", "r", "e", "a", "t", "e", " ", "a", " ", "N", "e", "w", " ",
       "R", "e", "p", "o", "s", "i", "t", "o", "r", "y", ".", " ", "P",
       "a", "s", "s", "w", "o", "r", "d">>}

\* the task descriptions the detectors are examined on
DetectTasks ==
    {\* the tasks of the workflow
     TaskCreateRepo,
     TaskReportBug,
     \* "create" with "project", in capitals
     <<"C", "R", "E", "A", "T", "E", " ", "A", " ", "P", "R", "O", "J",
       "E", "C", "T">>,
     \* "create" without the name of an artifact
     <<"C", "r", "e", "a", "t", "e", " ", "a", "n", " ", "a", "c", "c",
       "o", "u", "n", "t">>,
     \* "repo" without "create"
     <<"O", "p", "e", "n", " ", "m", "y", " ", "r", "e", "p", "o">>,
     \* none of the keywords
     <<"O", "p", "e", "n", " ", "a", "n", " ", "i", "s", "s", "u", "e">>}

\* agent.py:154-178
DetectLogin ==
    /\ frame.method = "detect"
    /\ "login" \notin frame.called
    /\ frame' = [frame EXCEPT !.called = @ \cup {"login"},
                              !.login = looks_like_login_or_oauth(frame.dom)]
    /\ RunIdle

\* agent.py:181-202
DetectRepo ==
    /\ frame.method = "detect"
    /\ "repo" \notin frame.called
    /\ frame' = [frame EXCEPT
                    !.called = @ \cup {"repo"},
                    !.repo = looks_like_github_repo_page(frame.dom, frame.task)]
    /\ RunIdle

\* agent.py:205-228
DetectIssue ==
    /\ frame.method = "detect"
    /\ "issue" \notin frame.called
    /\ frame' = [frame EXCEPT
                    !.called = @ \cup {"issue"},
                    !.issue = looks_like_github_issue_page(frame.dom,
                                                           frame.task)]
    /\ RunIdle

\* a snapshot and a task description no detector was called on yet
InitDetect ==
    /\ RunNotStarted
    /\ frame \in {[method |-> "detect",
                   dom |-> [url |-> u, visible_text |-> t],
                   task |-> k,
                   called |-> {},
                   login |-> FALSE,
                   repo |-> FALSE,
                   issue |-> FALSE] :
                    u \in DetectUrls, t \in DetectTexts, k \in DetectTasks}

NextDetect ==
    \/ DetectLogin
    \/ DetectRepo
    \/ DetectIssue

SpecDetect ==
    InitDetect /\ [][NextDetect]_vars

\* `phrase` occurs in `s`, whatever the case of `s`
Occurs(phrase, s) ==
    Contains(Lower(s), phrase)

\* the marker phrases that occur in the text of the snapshot
MarkersInText ==
    {i \in DOMAIN login_markers : Occurs(login_markers[i], frame.dom.visible_text)}

\* the URL is that of the identity provider or of the login page
LoginUrl ==
    \/ Occurs(GoogleAccountsHost, frame.dom.url)
    \/ Occurs(GithubLoginPath, frame.dom.url)

\* C16: looks_like_login_or_oauth is true when two or more of the marker
\* phrases occur in the visible text, whatever its case, and false when
\* exactly one occurs and the URL is no identity-provider or login URL.
C16_LoginByTwoMarkers ==
    (frame.method = "detect" /\ "login" \in frame.called) =>
        /\ Cardinality(MarkersInText) >= 2 => frame.login
        /\ (Cardinality(MarkersInText) = 1 /\ ~LoginUrl) => ~frame.login

\* two markers, one in capitals, on an unrelated URL: classified as login
C16_Witness ==
    /\ frame.method = "detect"
    /\ "login" \in frame.called
    /\ ~LoginUrl
    /\ Cardinality(MarkersInText) = 2
    /\ ~Contains(frame.dom.visible_text, login_markers[1])
    /\ Occurs(login_markers[1], frame.dom.visible_text)
    /\ frame.login

\* the task description mentions `keyword`
Mentions(keyword) ==
    Occurs(keyword, frame.task)

\* C17: looks_like_github_repo_page is false when the creation-form banner
\* is in the text or "/new" in the URL; true when the URL is on github.com
\* without "/new", the banner is absent and the task mentions "create" with
\* "repo", "repository" or "project"; and false on every page when the task
\* mentions none of these keywords.
C17_RepoTemplate ==
    (frame.method = "detect" /\ "repo" \in frame.called) =>
        /\ (\/ Occurs(CreateRepoBanner, frame.dom.visible_text)
            \/ Occurs(NewMarker, frame.dom.url)) => ~frame.repo
        /\ (/\ Occurs(GithubHost, frame.dom.url)
            /\ ~Occurs(NewMarker, frame.dom.url)
            /\ ~Occurs(CreateRepoBanner, frame.dom.visible_text)
            /\ Mentions(KwCreate)
            /\ Mentions(KwRepo) \/ Mentions(KwRepository) \/ Mentions(KwProject))
                => frame.repo
        /\ (/\ ~Mentions(KwCreate)
            /\ ~Mentions(KwRepo)
            /\ ~Mentions(KwRepository)
            /\ ~Mentions(KwProject)) => ~frame.repo

\* a repository page, a task in capitals that asks to create a project
C17_Witness ==
    /\ frame.method = "detect"
    /\ "repo" \in frame.called
    /\ ~Occurs(NewMarker, frame.dom.url)
    /\ ~Occurs(CreateRepoBanner, frame.dom.visible_text)
    /\ ~Contains(frame.task, KwCreate)
    /\ Mentions(KwCreate)
    /\ Mentions(KwProject)
    /\ frame.repo

====
